---- MODULE Spec2Model ----
(***************************************************************************)
(* easy-viewer: the template renderer of src/simple/server.js.             *)
(*                                                                         *)
(* Text is modelled character by character: a JavaScript string is a       *)
(* sequence of one-character strings, indexed from 0 in the helper         *)
(* operators exactly as the code indexes it.                               *)
(***************************************************************************)
EXTENDS Integers, Sequences, FiniteSets, TLC

(***************************************************************************)
(* Bounds of the model.                                                    *)
(***************************************************************************)
\* render calls made on one Rooter before the next request replaces it
MaxRenders == 2
\* nested run frames the runtime stack holds before the call throws RangeError
StackLimit == 3

(***************************************************************************)
(* String primitives of the runtime, as the code uses them.                *)
(***************************************************************************)
Min(a, b) == IF a < b THEN a ELSE b

\* String.prototype.slice(a, b) for 0 <= a: characters a .. b-1
Slice(s, a, b) == SubSeq(s, a + 1, Min(b, Len(s)))

\* String.prototype.slice(a)
SliceFrom(s, a) == SubSeq(s, a + 1, Len(s))

StartsWith(s, p) == Len(p) <= Len(s) /\ SubSeq(s, 1, Len(p)) = p

\* String.prototype.indexOf(p): 0-based index of the first occurrence, or -1
IndexOf(s, p) ==
    LET hits == {k \in 0..(Len(s) - Len(p)) : SubSeq(s, k + 1, k + Len(p)) = p}
    IN  IF hits = {} THEN -1 ELSE CHOOSE k \in hits : \A j \in hits : k <= j

WhiteSpace == {" ", "\n", "\t", "\r"}

RECURSIVE TrimStart(_)
TrimStart(s) == IF s # <<>> /\ Head(s) \in WhiteSpace THEN TrimStart(Tail(s)) ELSE s

RECURSIVE TrimEnd(_)
TrimEnd(s) ==
    IF s # <<>> /\ s[Len(s)] \in WhiteSpace THEN TrimEnd(SubSeq(s, 1, Len(s) - 1)) ELSE s

\* String.prototype.trim()
Trim(s) == TrimEnd(TrimStart(s))

\* key.replace(/\n\s*/g, ''): every newline goes, with the whitespace run after it
RECURSIVE StripNewlineRuns(_)
StripNewlineRuns(s) ==
    IF s = <<>> THEN <<>>
    ELSE IF Head(s) = "\n" THEN StripNewlineRuns(TrimStart(Tail(s)))
    ELSE <<Head(s)>> \o StripNewlineRuns(Tail(s))

\* readFileSync(..).replace(/\r\n/g, '') of SchemeManager.load
StripCRLF(s) ==
    LET InPair(i) == \/ s[i] = "\r" /\ i < Len(s) /\ s[i + 1] = "\n"
                     \/ s[i] = "\n" /\ i > 1 /\ s[i - 1] = "\r"
        Keep(i)   == ~InPair(i)
        kept      == SelectSeq([i \in 1..Len(s) |-> i], Keep)
    IN  [k \in 1..Len(kept) |-> s[kept[k]]]

\* content.replace(pattern, text) with a string pattern: the first occurrence only
\* (the texts of the model hold no '$', so no replacement pattern is expanded)
ReplaceFirst(s, p, text) ==
    LET k == IndexOf(s, p)
    IN  IF k = -1 THEN s ELSE Slice(s, 0, k) \o text \o SliceFrom(s, k + Len(p))

(***************************************************************************)
(* The scanner loop of run and the declaration rewrite.                    *)
(***************************************************************************)
Opener == <<"{", "{">>

Closer == <<"}", "}">>

\* one iteration of the for loop: the match pushed at index i, if any
MatchAt(content, i) ==
    LET start    == Slice(content, i, i + 2) = Opener
        endIndex == IndexOf(SliceFrom(content, i + 2), Closer)
        key      == Trim(Slice(content, i + 2, i + endIndex + 1))
    IN  IF ~start \/ endIndex = -1 THEN <<>>
        ELSE << [html |-> Slice(content, i, i + endIndex + 4),
                 raw  |-> StripNewlineRuns(key)] >>

\* let codes = []; for (let i = 0; i < content?.length; i++) { ... }
Scan(content) ==
    LET Pushes(i) == MatchAt(content, i) # <<>>
        at        == SelectSeq([i \in 1..Len(content) |-> i - 1], Pushes)
    IN  [k \in 1..Len(at) |-> MatchAt(content, at[k])[1]]

DeclLet == <<"l", "e", "t", " ">>

DeclConst == <<"c", "o", "n", "s", "t", " ">>

DeclVar == <<"v", "a", "r", " ">>

GlobalDot == <<"g", "l", "o", "b", "a", "l", ".">>

\* code.replace(/(let|const|var) /g, 'global.')
RECURSIVE DefinitionsRewrite(_)
DefinitionsRewrite(code) ==
    IF code = <<>> THEN <<>>
    ELSE IF StartsWith(code, DeclLet) THEN GlobalDot \o DefinitionsRewrite(SliceFrom(code, 4))
    ELSE IF StartsWith(code, DeclConst) THEN GlobalDot \o DefinitionsRewrite(SliceFrom(code, 6))
    ELSE IF StartsWith(code, DeclVar) THEN GlobalDot \o DefinitionsRewrite(SliceFrom(code, 4))
    ELSE <<Head(code)>> \o DefinitionsRewrite(Tail(code))

(***************************************************************************)
(* JavaScript values: t is the kind, n the number, s the string.           *)
(***************************************************************************)
Num(n) == [t |-> "number", n |-> n, s |-> <<>>]

Str(s) == [t |-> "string", n |-> 0, s |-> s]

Undefined == [t |-> "undefined", n |-> 0, s |-> <<>>]

Null == [t |-> "null", n |-> 0, s |-> <<>>]

NaN == [t |-> "NaN", n |-> 0, s |-> <<>>]

\* the include closure installed by run
Fn == [t |-> "function", n |-> 0, s |-> <<>>]

\* typeof v
TypeOf(v) ==
    CASE v.t = "number" -> "number"
      [] v.t = "NaN" -> "number"
      [] v.t = "string" -> "string"
      [] v.t = "function" -> "function"
      [] v.t = "undefined" -> "undefined"
      [] v.t = "null" -> "object"

\* the truthiness that `item.output || ''` tests
Truthy(v) ==
    CASE v.t = "number" -> v.n # 0
      [] v.t = "string" -> v.s # <<>>
      [] v.t = "function" -> TRUE
      [] OTHER -> FALSE

Digits == <<"0", "1", "2", "3", "4", "5", "6", "7", "8", "9">>

DigitSet == {Digits[i] : i \in 1..10}

DigitVal(c) == (CHOOSE i \in 1..10 : Digits[i] = c) - 1

IsDigits(s) == s # <<>> /\ \A i \in 1..Len(s) : s[i] \in DigitSet

RECURSIVE ParseNum(_)
ParseNum(s) ==
    IF s = <<>> THEN 0 ELSE 10 * ParseNum(SubSeq(s, 1, Len(s) - 1)) + DigitVal(s[Len(s)])

\* String(n) for a natural number
RECURSIVE NumText(_)
NumText(n) == IF n < 10 THEN <<Digits[n + 1]>> ELSE NumText(n \div 10) \o <<Digits[(n % 10) + 1]>>

\* the text String.prototype.replace makes of a truthy replacement value
ToText(v) ==
    CASE v.t = "number" -> NumText(v.n)
      [] v.t = "string" -> v.s
      [] v.t = "NaN" -> <<"N", "a", "N">>
      [] OTHER -> <<>>

IdentChars ==
    {"a", "b", "c", "d", "e", "f", "g", "h", "i", "j", "k", "l", "m", "n", "o", "p",
     "q", "r", "s", "t", "u", "v", "w", "x", "y", "z", "_"}

IsIdent(s) == s # <<>> /\ \A i \in 1..Len(s) : s[i] \in IdentChars

(***************************************************************************)
(* eval(item.code), for the expression forms the templates of the model    *)
(* use: a number, a quoted string, an identifier, a member access, one     *)
(* binary + or *, an assignment to global.<name>, a call of include.  Any  *)
(* other text fails to parse, as the truncated forms the scanner can       *)
(* produce do.  A result says whether the evaluation threw.                *)
(***************************************************************************)
Ok(v) == [threw |-> FALSE, kind |-> "", value |-> v]

Throw(kind) == [threw |-> TRUE, kind |-> kind, value |-> Undefined]

Quote == "'"

IsLiteral(code) ==
    /\ Len(code) >= 2
    /\ code[1] = Quote
    /\ code[Len(code)] = Quote
    /\ \A i \in 2..(Len(code) - 1) : code[i] # Quote

\* an operand: literal, global.<name>, identifier or member access
Atom(code, global) ==
    LET dot == IndexOf(code, <<".">>)
    IN  IF IsDigits(code) THEN Ok(Num(ParseNum(code)))
        ELSE IF IsLiteral(code) THEN Ok(Str(SubSeq(code, 2, Len(code) - 1)))
        ELSE IF IsIdent(code)
             THEN IF code \in DOMAIN global THEN Ok(global[code]) ELSE Throw("ReferenceError")
        ELSE IF StartsWith(code, GlobalDot) /\ IsIdent(SliceFrom(code, 7))
             THEN IF SliceFrom(code, 7) \in DOMAIN global
                  THEN Ok(global[SliceFrom(code, 7)]) ELSE Ok(Undefined)
        ELSE IF dot > 0 /\ IsIdent(Slice(code, 0, dot)) /\ IsIdent(SliceFrom(code, dot + 1))
             THEN IF Slice(code, 0, dot) \notin DOMAIN global THEN Throw("ReferenceError")
                  ELSE IF global[Slice(code, 0, dot)].t \in {"undefined", "null"}
                       THEN Throw("TypeError")
                  ELSE Ok(Undefined)
        ELSE Throw("SyntaxError")

Times(a, b) == IF a.t = "number" /\ b.t = "number" THEN Num(a.n * b.n) ELSE NaN

Plus(a, b) ==
    IF a.t = "number" /\ b.t = "number" THEN Num(a.n + b.n)
    ELSE IF {a.t, b.t} \subseteq {"number", "string"} THEN Str(ToText(a) \o ToText(b))
    ELSE NaN

\* an expression without side effect: an operand, or two operands and one operator
Rhs(code, global) ==
    LET star == IndexOf(code, <<"*">>)
        plus == IndexOf(code, <<"+">>)
        k    == IF star # -1 THEN star ELSE plus
        l    == Atom(Trim(Slice(code, 0, k)), global)
        r    == Atom(Trim(SliceFrom(code, k + 1)), global)
    IN  IF IsLiteral(code) \/ k = -1 THEN Atom(code, global)
        ELSE IF l.threw THEN l
        ELSE IF r.threw THEN r
        ELSE IF star # -1 THEN Ok(Times(l.value, r.value))
        ELSE Ok(Plus(l.value, r.value))

Assign == <<" ", "=", " ">>

IsAssignment(code) ==
    /\ StartsWith(code, GlobalDot)
    /\ IndexOf(code, Assign) > 7
    /\ IsIdent(Slice(code, 7, IndexOf(code, Assign)))

AssignTarget(code) == Slice(code, 7, IndexOf(code, Assign))

IncludeOpen == <<"i", "n", "c", "l", "u", "d", "e", "(", "\"">>

IncludeClose == <<"\"", ")">>

IsIncludeCall(code) ==
    /\ StartsWith(code, IncludeOpen)
    /\ Len(code) >= Len(IncludeOpen) + 2
    /\ SubSeq(code, Len(code) - 1, Len(code)) = IncludeClose
    /\ IsIdent(SubSeq(code, Len(IncludeOpen) + 1, Len(code) - 2))

IncludeArg(code) == SubSeq(code, Len(IncludeOpen) + 1, Len(code) - 2)

(***************************************************************************)
(* The files on disk: the scheme directory and the views directory.        *)
(***************************************************************************)
\* "{{ body }}"
M(body) == Opener \o <<" ">> \o body \o <<" ">> \o Closer

\* include("name")
CallInclude(name) == IncludeOpen \o name \o IncludeClose

X == <<"x">>

BadProp == <<"b", "a", "d", ".", "p">>

OnePlusOne == <<"1", "+", "1">>

Part == <<"p", "a", "r", "t">>

Loop == <<"l", "o", "o", "p">>

Nope == <<"n", "o", "p", "e">>

\* the *.html files of the scheme directory, by name
SchemeFiles ==
    [name \in {"plain", "page"} |->
        CASE name = "plain" -> <<"}", "}", "a", "\r", "\n", "{", "{", "b">>
          [] name = "page" -> <<"a">> \o M(OnePlusOne) \o <<"b">> \o M(BadProp) \o <<"c">>
                              \o M(X) \o <<"d">>
                              \o M(DeclLet \o <<"x", " ", "=", " ", "5">>)
                              \o M(<<"x", " ", "*", " ", "2">>)
                              \o M(CallInclude(Part)) \o M(X)
                              \o <<"e">> \o M(CallInclude(Nope)) \o <<"f">>
                              \o Opener \o X \o Closer \o <<"g">> \o M(<<"0">>) \o <<"h">>]

\* the <name>.html files of the views directory
Views ==
    (Part :> (<<"[">> \o M(X) \o M(CallInclude(Loop)) \o <<"]">>))
    @@ (Loop :> (<<"L">> \o M(CallInclude(Loop))))

\* the scheme references a caller passes
SchemeRefs == DOMAIN SchemeFiles

FileName == <<"i", "n", "d", "e", "x">>

\* the data objects a caller passes
DataSet == { <<>>, X :> Str(M(OnePlusOne)) }

(***************************************************************************)
(* State.                                                                  *)
(***************************************************************************)
VARIABLES
    schemeStore,  \* const schemeStore = new Map(): name -> html
    configStore,  \* const configStore = new Map(): key -> value
    global,       \* the process-wide namespace the expressions read and write
    rooter,       \* whether UseRender has constructed a Rooter
    errors,       \* this.errors of that Rooter
    calls,        \* its render calls, in call order, with what each has sent
    trace         \* the passes and evaluations of the latest render call

vars == <<schemeStore, configStore, global, rooter, errors, calls, trace>>

(***************************************************************************)
(* Rooter.run, the include closure and eval, over the threaded state       *)
(* st = [global, errors, passes, evals].                                   *)
(***************************************************************************)
\* config.get(ConfigKeys.VIEWS) is a directory (undefined while the key is unset)
ViewsSet == "views" \in DOMAIN configStore

\* configStore.get(ConfigKeys.IGNORE_ERRORS)?.value is truthy
IgnoreErrors == "ignore_errors" \in DOMAIN configStore /\ configStore["ignore_errors"]

\* if (['object', 'function', 'undefined', 'null'].includes(typeof output)) output = null
Surface(v) == IF TypeOf(v) \in {"object", "function", "undefined", "null"} THEN Null ELSE v

\* item.output || ''
OutputText(output) == IF Truthy(output) THEN ToText(output) ELSE <<>>

\* codes.forEach(item => content = content.replace(item.html, item.output || ''))
RECURSIVE Substitute(_, _, _)
Substitute(content, items, k) ==
    IF k > Len(items) THEN content
    ELSE Substitute(ReplaceFirst(content, items[k].html, items[k].out), items, k + 1)

RECURSIVE run(_, _, _, _)
RECURSIVE EvalItems(_, _, _, _, _, _)

\* the return of the include closure once the nested run has returned
Included(sub) == [r |-> Ok(Str(sub.content)), st |-> sub.st]

\* data.include = (file) => { ... }
include(file, data, st, depth) ==
    IF ~ViewsSet THEN [r |-> Throw("TypeError"), st |-> st]
    ELSE IF file \notin DOMAIN Views THEN [r |-> Ok(Null), st |-> st]
    ELSE IF depth >= StackLimit THEN [r |-> Throw("RangeError"), st |-> st]
    ELSE Included(run(data, Views[file], st, depth + 1))

\* eval of `global.<name> = <expression>`, whose right-hand side evaluated to rhs
AssignGlobal(code, rhs, st) ==
    IF rhs.threw THEN [r |-> rhs, st |-> st]
    ELSE [r |-> rhs, st |-> [st EXCEPT !.global = (AssignTarget(code) :> rhs.value) @@ @]]

IncludeName == <<"i", "n", "c", "l", "u", "d", "e">>

\* eval(item?.code)
EvalCode(code, data, st, depth) ==
    IF code = <<>> THEN [r |-> Ok(Undefined), st |-> st]
    ELSE IF IsAssignment(code)
         THEN AssignGlobal(code, Rhs(SliceFrom(code, IndexOf(code, Assign) + 3), st.global), st)
    ELSE IF IsIncludeCall(code)
         THEN IF IncludeName \notin DOMAIN st.global
              THEN [r |-> Throw("ReferenceError"), st |-> st]
              ELSE IF st.global[IncludeName].t # "function"
                   THEN [r |-> Throw("TypeError"), st |-> st]
              ELSE include(IncludeArg(code), data, st, depth)
    ELSE [r |-> Rhs(code, st.global), st |-> st]

\* the slip `this.errors = [error]` in place of the push
CatchReset(errs, r) == IF r.threw THEN <<r.kind>> ELSE errs

\* catch (error) { this.errors.push(error) }, for the outcome r of one eval
Catch(errs, r) == IF r.threw THEN Append(errs, r.kind) ELSE errs

\* the item the map callback returns for marker c, whose eval had the outcome e:
\* { ...item, output }, with the error counts before and after it
MapItem(c, e, e0, pass) ==
    [pass |-> pass, html |-> c.html, raw |-> c.raw, code |-> c.code,
     threw |-> e.r.threw, value |-> e.r.value,
     out |-> OutputText(IF e.r.threw THEN Null ELSE Surface(e.r.value)),
     e0 |-> e0, e1 |-> Len(Catch(e.st.errors, e.r))]

\* one call of the map callback: try { output = eval(item?.code) } catch (error) { ... }
MapStep(acc, c, e, pass) ==
    [items |-> Append(acc.items, MapItem(c, e, Len(acc.st.errors), pass)),
     st    |-> [e.st EXCEPT !.errors = Catch(@, e.r),
                            !.evals = Append(@, MapItem(c, e, Len(acc.st.errors), pass))]]

\* codes = codes.map(item => { ... }), from item k on
EvalItems(codes, k, data, acc, depth, pass) ==
    IF k > Len(codes) THEN acc
    ELSE EvalItems(codes, k + 1, data,
                   MapStep(acc, codes[k], EvalCode(codes[k].code, data, acc.st, depth), pass),
                   depth, pass)

\* codes = codes.map(item => { code = code.replace(/(let|const|var) /g, 'global.'); .. })
Codes(found) ==
    [k \in 1..Len(found) |->
        [html |-> found[k].html, raw |-> found[k].raw,
         code |-> DefinitionsRewrite(found[k].raw)]]

\* Object.keys(data).forEach(key => global[key] = data[key]), at the start of a pass
Seeded(st, data, content, codes, depth) ==
    [st EXCEPT !.global = data @@ @,
               !.passes = Append(@, [depth |-> depth, content |-> content,
                                     result |-> <<>>, markers |-> Len(codes)])]

\* return content
Returned(result, st, pass) ==
    [content |-> result, st |-> [st EXCEPT !.passes[pass].result = result]]

\* codes.forEach(..) over the mapped items, and the return
Substituted(content, done, pass) ==
    Returned(Substitute(content, done.items, 1), done.st, pass)

\* run after the scanner loop: the seeding, the map and the substitution
Replaced(data, content, codes, st, depth) ==
    Substituted(content,
                EvalItems(codes, 1, data,
                          [items |-> <<>>, st |-> Seeded(st, data, content, codes, depth)],
                          depth, Len(st.passes) + 1),
                Len(st.passes) + 1)

\* run(data, content)
run(data, content, st, depth) ==
    Replaced((IncludeName :> Fn) @@ data, content, Codes(Scan(content)), st, depth)

(***************************************************************************)
(* Operations.                                                             *)
(***************************************************************************)
NoTrace == [passes |-> <<>>, evals |-> <<>>]

Init ==
    /\ schemeStore = <<>>
    /\ configStore = <<>>
    /\ global = <<>>
    /\ rooter = FALSE
    /\ errors = <<>>
    /\ calls = <<>>
    /\ trace = NoTrace

\* SchemeManager.load(schemeDirectory)
Load ==
    /\ schemeStore' = [name \in DOMAIN SchemeFiles |-> StripCRLF(SchemeFiles[name])] @@ schemeStore
    /\ UNCHANGED <<configStore, global, rooter, errors, calls, trace>>

\* Config.set(key, value), for the keys the renderer reads
ConfigSet ==
    /\ \E key \in {"views", "ignore_errors"} :
         \E value \in (IF key = "views" THEN {"html"} ELSE BOOLEAN) :
            configStore' = (key :> value) @@ configStore
    /\ UNCHANGED <<schemeStore, global, rooter, errors, calls, trace>>

\* the continuations of all earlier render calls have run
Drained == \A i \in 1..Len(calls) : calls[i].done

\* UseRender(request, response, next) for a GET request: new Rooter(request)
UseRender ==
    /\ Drained
    /\ rooter' = TRUE
    /\ errors' = <<>>
    /\ calls' = <<>>
    /\ trace' = NoTrace
    /\ UNCHANGED <<schemeStore, configStore, global>>

Json404 == [type |-> "json", status |-> 404, body |-> <<>>]

Json500 == [type |-> "json", status |-> 500, body |-> <<>>]

SendHtml(html) == [type |-> "send", status |-> 200, body |-> html]

\* the value res.json(..) returns, which getHtml hands back in place of markup
ResObject == <<"[", "r", "e", "s", "]">>

\* the call record of a render whose scheme resolved and whose run returned out
Ran(scheme, data, out) ==
    [scheme |-> scheme, data |-> data, views |-> ViewsSet, found |-> TRUE, ran |-> TRUE,
     html |-> out.content, own |-> Len(out.st.errors) - Len(errors),
     sent |-> <<>>, done |-> FALSE]

\* the call record of a render whose scheme did not resolve: getHtml has answered 404
NotFound(scheme, data) ==
    [scheme |-> scheme, data |-> data, views |-> ViewsSet, found |-> FALSE, ran |-> FALSE,
     html |-> ResObject, own |-> 0, sent |-> <<Json404>>, done |-> FALSE]

\* data.file_name = this.file_name
WithFileName(data) == (<<"f", "i", "l", "e", "_", "n", "a", "m", "e">> :> Str(FileName)) @@ data

\* Rooter.render up to its await: getHtml and, if the scheme resolves, run
Render ==
    /\ rooter
    /\ Len(calls) < MaxRenders
    /\ \E scheme \in SchemeRefs, data \in DataSet :
         IF scheme \in DOMAIN schemeStore /\ schemeStore[scheme] # <<>>
         THEN \E out \in {run(WithFileName(data), schemeStore[scheme],
                              [global |-> global, errors |-> errors,
                               passes |-> <<>>, evals |-> <<>>], 1)} :
                  /\ global' = out.st.global
                  /\ errors' = out.st.errors
                  /\ trace' = [passes |-> out.st.passes, evals |-> out.st.evals]
                  /\ calls' = Append(calls, Ran(scheme, data, out))
         ELSE /\ calls' = Append(calls, NotFound(scheme, data))
              /\ UNCHANGED <<global, errors, trace>>
    /\ UNCHANGED <<schemeStore, configStore, rooter>>

\* the continuation of call i may run: no call before it is due earlier
Due(i) ==
    /\ ~calls[i].done
    /\ \A j \in 1..(i - 1) : calls[j].done \/ (calls[i].found /\ ~calls[j].found)

\* the gate of the older render, which knows no ignore_errors setting
ReplyWithoutSetting(call) ==
    IF Len(errors) > 0 THEN Json500 ELSE SendHtml(call.html)

\* if (this.errors.length > 0 && !ignore_errors) return this.json({ status: 500 .. });
\* return this.request.res.send(html);
Reply(call) ==
    IF Len(errors) > 0 /\ ~IgnoreErrors THEN Json500 ELSE SendHtml(call.html)

\* Rooter.render after its await: the gate on this.errors and the response
Gate ==
    /\ \E i \in 1..Len(calls) :
         /\ Due(i)
         /\ calls' = [calls EXCEPT ![i].sent = Append(@, Reply(calls[i])), ![i].done = TRUE]
    /\ UNCHANGED <<schemeStore, configStore, global, rooter, errors, trace>>

Next == Load \/ ConfigSet \/ UseRender \/ Render \/ Gate

Spec == Init /\ [][Next]_vars

(***************************************************************************)
(* Properties.                                                             *)
(***************************************************************************)
\* the evaluations of pass p of the latest render call, in evaluation order
PassItems(p) ==
    LET InPass(e) == e.pass = p
    IN  SelectSeq(trace.evals, InPass)

IsDeclaration(raw) ==
    StartsWith(raw, DeclLet) \/ StartsWith(raw, DeclConst) \/ StartsWith(raw, DeclVar)

\* the evaluations of the latest render call that threw, nested passes included
Thrown == {k \in 1..Len(trace.evals) : trace.evals[k].threw}

C2_NotFoundAnswersOnce ==
    \A i \in 1..Len(calls) :
        ~calls[i].found => ~calls[i].ran /\ calls[i].sent = <<Json404>>

\* C3: in every pass every scanned marker is evaluated, in scan order; a
\* marker whose evaluation throws appends exactly one error and is replaced
\* by the empty string; every other marker is replaced by the text of its
\* own value.
C3_ThrowingMarkerIsolated ==
    \A p \in 1..Len(trace.passes) :
        LET found == Scan(trace.passes[p].content)
            items == PassItems(p)
        IN  /\ Len(items) = Len(found)
            /\ \A k \in 1..Len(items) :
                  /\ items[k].html = found[k].html
                  /\ items[k].threw => items[k].e1 = items[k].e0 + 1 /\ items[k].out = <<>>
                  /\ ~items[k].threw => items[k].out = OutputText(Surface(items[k].value))

\* a pass in which a marker threw after an error was already recorded, between
\* two markers that were replaced by their values
C3_Witness ==
    \E p \in 1..Len(trace.passes) :
        LET items == PassItems(p)
        IN  \E j, k, l \in 1..Len(items) :
               /\ j < k /\ k < l
               /\ ~items[j].threw /\ items[j].out # <<>>
               /\ items[k].threw /\ items[k].e0 > 0
               /\ ~items[l].threw /\ items[l].out # <<>>

\* C4: a declaration marker (let, const or var) is replaced by the empty
\* string, whatever value it assigns.
C4_DeclarationRendersNothing ==
    \A k \in 1..Len(trace.evals) :
        IsDeclaration(trace.evals[k].raw) => trace.evals[k].out = <<>>

\* C5: a render call of a scheme whose markup holds no marker answers with
\* that markup, unchanged, and records no error.
C5_MarkerFreeRendersUnchanged ==
    \A i \in 1..Len(calls) :
        (/\ calls[i].found
         /\ calls[i].done
         /\ calls[i].scheme \in DOMAIN schemeStore
         /\ Scan(schemeStore[calls[i].scheme]) = <<>>)
            => /\ calls[i].sent = <<SendHtml(schemeStore[calls[i].scheme])>>
               /\ calls[i].own = 0

\* C6: a marker that calls include for a view file that does not exist
\* does not throw, appends no error and is replaced by the empty string.
C6_MissingIncludeIsSilent ==
    \A k \in 1..Len(trace.evals) :
        (IsIncludeCall(trace.evals[k].code) /\ IncludeArg(trace.evals[k].code) \notin DOMAIN Views)
            => /\ ~trace.evals[k].threw
               /\ trace.evals[k].e1 = trace.evals[k].e0
               /\ trace.evals[k].out = <<>>

\* C7: two render calls with the same scheme and data, under the same views
\* setting, resolve to the same text: nothing one call wrote is read by another.
C7_CallsDoNotLeak ==
    \A i, j \in 1..Len(calls) :
        (/\ calls[i].found /\ calls[j].found
         /\ calls[i].scheme = calls[j].scheme
         /\ calls[i].data = calls[j].data
         /\ calls[i].views = calls[j].views)
            => calls[i].html = calls[j].html

\* C8: include recursion is cut by a depth guard of the renderer: no pass
\* runs at the depth where the runtime stack is exhausted, and no RangeError
\* of the runtime is ever recorded.
C8_DepthGuarded ==
    /\ \A p \in 1..Len(trace.passes) : trace.passes[p].depth < StackLimit
    /\ \A k \in 1..Len(errors) : errors[k] # "RangeError"

\* C9: the text a pass of run returns holds no marker.
C9_ResultHasNoMarker ==
    \A p \in 1..Len(trace.passes) : Scan(trace.passes[p].result) = <<>>

\* the evaluation is a successful declaration of the variable named v
Declares(e, v) == IsAssignment(e.code) /\ AssignTarget(e.code) = v /\ ~e.threw

\* C10: a marker that reads a variable sees the value of the latest earlier
\* declaration marker of that variable in the same render call, across
\* includes, whether or not the variable is also a key of the data.
C10_ReaderSeesLatestDeclaration ==
    \A d, r \in 1..Len(trace.evals) :
        (/\ d < r
         /\ IsIdent(trace.evals[r].code)
         /\ Declares(trace.evals[d], trace.evals[r].code)
         /\ \A m \in (d + 1)..(r - 1) : ~Declares(trace.evals[m], trace.evals[r].code))
            => ~trace.evals[r].threw /\ trace.evals[r].value = trace.evals[d].value


\* the text of a marker span strictly between its opener and its closer
Between(html) == SubSeq(html, 3, Len(html) - 2)

\* C11: for every marker the scanner finds, the span recorded for the
\* substitution runs from the opener through the nearest following closer,
\* and the raw expression is the text strictly between the two, trimmed,
\* with no character dropped.
C11_RawIsTextBetween ==
    \A k \in 1..Len(trace.evals) :
        /\ StartsWith(trace.evals[k].html, Opener)
        /\ IndexOf(SliceFrom(trace.evals[k].html, 2), Closer) = Len(trace.evals[k].html) - 4
        /\ trace.evals[k].raw = Trim(Between(trace.evals[k].html))

\* C12: a marker whose evaluation returns a number or a string is replaced
\* by the text of that value, 0 and the empty string included; one whose
\* evaluation returns an object, a function, undefined or null is replaced
\* by the empty string.
C12_ScalarsSurface ==
    \A k \in 1..Len(trace.evals) :
        ~trace.evals[k].threw
            => trace.evals[k].out =
                  IF TypeOf(trace.evals[k].value) \in {"number", "string"}
                  THEN ToText(trace.evals[k].value)
                  ELSE <<>>

\* C13: a render call that resolves its scheme and whose markers all
\* evaluate without throwing answers with its markup, whatever earlier
\* render calls on the same Rooter recorded.
C13_ErrorsScopedToCall ==
    \A i \in 1..Len(calls) :
        (calls[i].found /\ calls[i].done /\ calls[i].own = 0)
            => calls[i].sent = <<SendHtml(calls[i].html)>>

====
